---- MODULE Spec2Model ----
(***************************************************************************)
(* Progress tracking of the Quran Companion desktop application            *)
(* (src/Ramadan_app.py): the QuranApp instance, its progress.json backing  *)
(* file, the "Mark Surah as Read" callback, the progress list, the sheet   *)
(* sync, the Zakat calculator and the window-close handler.                *)
(*                                                                         *)
(* JSON text is modelled as a sequence of tokens and Python values as      *)
(* tagged records, so that json.dump / json.load are real conversions.     *)
(***************************************************************************)
EXTENDS Integers, Sequences, FiniteSets, TLC

VARIABLES
    pc,               \* "off" | "running" | "crashed" | "closed": the process
    progress_file,    \* progress.json on disk: [exists, content (tokens)]
    progress_data,    \* self.progress_data (a Python value); PyNone when no process
    surah_var,        \* self.surah_var (Combobox selection), "" when nothing selected
    progress_listbox, \* rows of self.progress_listbox
    msg,              \* the last messagebox shown by the last callback
    console,          \* the last line printed on stdout by the last callback
    stderr,           \* the exception a callback or the constructor let escape ("" none)
    lastOp,           \* the last UI event handled
    lastSave,         \* how the last callback's save_progress call ended ("none": no call)
    markCalls,        \* number of mark_surah_read calls so far
    starts,           \* number of times the application was launched
    marked,           \* non-empty labels marked in this session, in order of first mark
    loaded,           \* the value load_progress returned in this session
    lastLoad,         \* how this session's load ended: "absent", "unreadable", "corrupt", "ok"
    gs_client,        \* self.gs_client is set (Google Sheets configured)
    sheet_A1,         \* cell A1 of the remote sheet "QuranProgress"
    wealth_var,       \* the Entry bound to self.wealth_var: [valid, cents]
    zakat_result,     \* self.zakat_result: [shown, dollars, cents]
    peer,             \* a second process on the same progress.json: [pc, progress_data, ...]
    now,              \* the wall clock when reminder_loop next reads it (seconds)
    notified,         \* number of Suhoor notifications sent, per date
    started_at        \* the wall clock when the reminder thread was started

vars == <<pc, progress_file, progress_data, surah_var, progress_listbox, msg, console,
          stderr, lastOp, lastSave, markCalls, starts, marked, loaded,
          lastLoad, gs_client, sheet_A1, wealth_var, zakat_result,
          peer, now, notified, started_at>>
sheetVars == <<gs_client, sheet_A1>>
zakatVars == <<wealth_var, zakat_result>>
reminderVars == <<now, notified, started_at>>

-----------------------------------------------------------------------------
(* Bounds of the model *)

MaxMarks == 3
MaxStarts == 2
MaxWealthCents == 100

-----------------------------------------------------------------------------
(* Python values, as json.load builds them *)

PyStr(s) == [t |-> "str", v |-> s]
PyNum(s) == [t |-> "num", v |-> s]
PyNone == [t |-> "null"]
PyList(items) == [t |-> "list", items |-> items]
PyDict(members) == [t |-> "dict", members |-> members]
Member(k, v) == [key |-> k, val |-> v]

Keys(d) == {d.members[i].key : i \in 1..Len(d.members)}
HasKey(d, k) == k \in Keys(d)
Lookup(d, k) == (CHOOSE m \in {d.members[i] : i \in 1..Len(d.members)} : m.key = k).val

\* d[k] = v on a dict: replaces the value of an existing key in place, else appends
SetItem(members, k, v) ==
    IF \E i \in 1..Len(members) : members[i].key = k
    THEN [i \in 1..Len(members) |->
             IF members[i].key = k THEN Member(k, v) ELSE members[i]]
    ELSE Append(members, Member(k, v))

Range(s) == {s[i] : i \in 1..Len(s)}
Count(items, x) == Cardinality({i \in 1..Len(items) : items[i] = x})
NoDuplicates(items) == \A i, j \in 1..Len(items) : items[i] = items[j] => i = j
IsPrefix(s, t) == Len(s) <= Len(t) /\ \A i \in 1..Len(s) : s[i] = t[i]

-----------------------------------------------------------------------------
(* JSON text: tokens *)

Tok(k, v) == [k |-> k, v |-> v]
LBrace == Tok("punct", "{")
RBrace == Tok("punct", "}")
LBracket == Tok("punct", "[")
RBracket == Tok("punct", "]")
Colon == Tok("punct", ":")
Comma == Tok("punct", ",")

RECURSIVE json_dump(_)
RECURSIVE DumpItems(_)
RECURSIVE DumpMembers(_)

DumpItems(items) ==
    IF items = <<>> THEN <<>>
    ELSE IF Len(items) = 1 THEN json_dump(items[1])
    ELSE json_dump(items[1]) \o <<Comma>> \o DumpItems(Tail(items))

DumpMembers(members) ==
    IF members = <<>> THEN <<>>
    ELSE LET one == <<Tok("str", members[1].key), Colon>> \o json_dump(members[1].val)
         IN IF Len(members) = 1 THEN one
            ELSE one \o <<Comma>> \o DumpMembers(Tail(members))

\* json.dump(obj, f, indent=2): the text written (white space is not a token)
json_dump(x) ==
    CASE x.t = "str" -> <<Tok("str", x.v)>>
      [] x.t = "num" -> <<Tok("num", x.v)>>
      [] x.t = "null" -> <<Tok("lit", "null")>>
      [] x.t = "list" -> <<LBracket>> \o DumpItems(x.items) \o <<RBracket>>
      [] x.t = "dict" -> <<LBrace>> \o DumpMembers(x.members) \o <<RBrace>>

ParseFail == [ok |-> FALSE, val |-> PyNone, next |-> 0]
ParseOk(v, n) == [ok |-> TRUE, val |-> v, next |-> n]

RECURSIVE ParseValue(_, _)
RECURSIVE ParseItems(_, _, _)
RECURSIVE ParseMembers(_, _, _)

\* the items of an array after "[", up to and including "]"
ParseItems(toks, i, acc) ==
    LET r == ParseValue(toks, i) IN
    IF ~r.ok \/ r.next > Len(toks) THEN ParseFail
    ELSE IF toks[r.next] = Comma THEN ParseItems(toks, r.next + 1, Append(acc, r.val))
    ELSE IF toks[r.next] = RBracket THEN ParseOk(PyList(Append(acc, r.val)), r.next + 1)
    ELSE ParseFail

\* the members of an object after "{", up to and including "}"
ParseMembers(toks, i, acc) ==
    IF i + 1 > Len(toks) \/ toks[i].k # "str" \/ toks[i + 1] # Colon THEN ParseFail
    ELSE LET r == ParseValue(toks, i + 2) IN
         IF ~r.ok \/ r.next > Len(toks) THEN ParseFail
         ELSE IF toks[r.next] = Comma
              THEN ParseMembers(toks, r.next + 1, SetItem(acc, toks[i].v, r.val))
         ELSE IF toks[r.next] = RBrace
              THEN ParseOk(PyDict(SetItem(acc, toks[i].v, r.val)), r.next + 1)
         ELSE ParseFail

ParseValue(toks, i) ==
    IF i > Len(toks) THEN ParseFail
    ELSE CASE toks[i].k = "str" -> ParseOk(PyStr(toks[i].v), i + 1)
           [] toks[i].k = "num" -> ParseOk(PyNum(toks[i].v), i + 1)
           [] toks[i] = Tok("lit", "null") -> ParseOk(PyNone, i + 1)
           [] toks[i] = LBracket ->
                IF i + 1 <= Len(toks) /\ toks[i + 1] = RBracket
                THEN ParseOk(PyList(<<>>), i + 2)
                ELSE ParseItems(toks, i + 1, <<>>)
           [] toks[i] = LBrace ->
                IF i + 1 <= Len(toks) /\ toks[i + 1] = RBrace
                THEN ParseOk(PyDict(<<>>), i + 2)
                ELSE ParseMembers(toks, i + 1, <<>>)
           [] OTHER -> ParseFail

\* json.load(f): one value and nothing after it, else JSONDecodeError (ok = FALSE)
json_load(toks) ==
    LET r == ParseValue(toks, 1) IN
    IF r.ok /\ r.next = Len(toks) + 1 THEN [ok |-> TRUE, val |-> r.val]
    ELSE [ok |-> FALSE, val |-> PyNone]

-----------------------------------------------------------------------------
(* Constants of the program *)

\* the names offered by the read-only Combobox: the surahs of QURAN_SAMPLE
SurahNames == {"Al-Fatiha", "Al-Ikhlas"}

\* {"read_surahs": []}
EmptyStore == PyDict(<<Member("read_surahs", PyList(<<>>))>>)

StoreOf(names) ==
    PyDict(<<Member("read_surahs", PyList([i \in 1..Len(names) |-> PyStr(names[i])]))>>)

NoMsg == [kind |-> "none", title |-> "", text |-> ""]
ShowInfo(title, text) == [kind |-> "info", title |-> title, text |-> text]
ShowError(title, text) == [kind |-> "error", title |-> title, text |-> text]

-----------------------------------------------------------------------------
(* The backing file *)

Absent == [exists |-> FALSE, content |-> <<>>]
FileOf(toks) == [exists |-> TRUE, content |-> toks]

\* what progress.json may hold when the application is launched
FileContents ==
    { Absent,
      FileOf(<<>>),                                          \* empty file
      FileOf(<<Tok("junk", "#!@")>>),                   \* garbage bytes
      FileOf(<<LBrace, Tok("str", "read_surahs")>>),          \* truncated JSON
      FileOf(json_dump(EmptyStore)),
      FileOf(json_dump(StoreOf(<<"Al-Fatiha">>))),
      FileOf(json_dump(StoreOf(<<"An-Nas", "Al-Ikhlas">>))),
      FileOf(json_dump(StoreOf(<<"Al-Fatiha", "Al-Fatiha">>))),
      FileOf(json_dump(PyDict(<<Member("read_surahs", PyList(<<PyStr("Al-Ikhlas")>>)),
                                Member("city", PyStr("Mecca"))>>))),
      FileOf(json_dump(PyDict(<<>>))),
      FileOf(json_dump(PyDict(<<Member("Al-Fatiha", PyStr("2025-03-01 04:10"))>>))),
      FileOf(json_dump(PyDict(<<Member("read_surahs", PyNone)>>))),
      FileOf(json_dump(PyDict(<<Member("read_surahs",
                 PyDict(<<Member("Al-Fatiha", PyStr("2025-03-01 04:10"))>>))>>))),
      FileOf(json_dump(PyList(<<PyStr("Al-Fatiha")>>))),
      FileOf(json_dump(PyNone)) }

\* load_progress falling back to {} instead of {"read_surahs": []}
load_progress_bare_dict(file, readable) ==
    IF file.exists
    THEN IF readable /\ json_load(file.content).ok
         THEN json_load(file.content).val
         ELSE PyDict(<<>>)
    ELSE PyDict(<<>>)

\* load_progress: `readable` is whether open(..., 'r') and the read succeed
load_progress(file, readable) ==
    IF file.exists
    THEN IF readable /\ json_load(file.content).ok
         THEN json_load(file.content).val
         ELSE EmptyStore
    ELSE EmptyStore

\* how the write of save_progress can end: it succeeds, open(..., 'w') raises
\* (permission), or the device fills up after open truncated the file and `cut`
\* tokens reached the disk
Faults(data) ==
    {[kind |-> "ok", cut |-> 0], [kind |-> "denied", cut |-> 0]}
    \cup {[kind |-> "diskfull", cut |-> c] : c \in 0..(Len(json_dump(data)) - 1)}

\* save_progress opening the file with 'a' instead of 'w'
save_progress_append(data, file, fault) ==
    CASE fault.kind = "ok" ->
           [file |-> FileOf(file.content \o json_dump(data)), console |-> ""]
      [] fault.kind = "denied" ->
           [file |-> file, console |-> "Save error:"]
      [] fault.kind = "diskfull" ->
           [file |-> FileOf(file.content \o SubSeq(json_dump(data), 1, fault.cut)),
            console |-> "Save error:"]

\* save_progress reading the file back first and keeping the labels it finds there
save_progress_merge(data, file, fault) ==
    CASE fault.kind = "ok" ->
           LET old == load_progress(file, TRUE)
               isList(d) == d.t = "dict" /\ HasKey(d, "read_surahs")
                               /\ Lookup(d, "read_surahs").t = "list"
               mine == Lookup(data, "read_surahs").items
               missing(x) == \A i \in 1..Len(mine) : mine[i] # x
               merged == IF isList(old) /\ isList(data)
                         THEN PyDict(SetItem(data.members, "read_surahs",
                                  PyList(mine \o SelectSeq(Lookup(old, "read_surahs").items,
                                                           missing))))
                         ELSE data
           IN [file |-> FileOf(json_dump(merged)), console |-> ""]
      [] fault.kind = "denied" ->
           [file |-> file, console |-> "Save error:"]
      [] fault.kind = "diskfull" ->
           [file |-> FileOf(SubSeq(json_dump(data), 1, fault.cut)),
            console |-> "Save error:"]

\* save_progress: the file afterwards and the line printed
save_progress(data, file, fault) ==
    CASE fault.kind = "ok" ->
           [file |-> FileOf(json_dump(data)), console |-> ""]
      [] fault.kind = "denied" ->
           [file |-> file, console |-> "Save error:"]
      [] fault.kind = "diskfull" ->
           [file |-> FileOf(SubSeq(json_dump(data), 1, fault.cut)),
            console |-> "Save error:"]

-----------------------------------------------------------------------------
(* The callbacks, as functions of the state they read *)

MarkOut(data, saved, m, exc) == [data |-> data, saved |-> saved, msg |-> m, exc |-> exc]

\* progress_data with `items` as the list under "read_surahs"
WithReadSurahs(data, items) ==
    PyDict(SetItem(data.members, "read_surahs", PyList(items)))
ReadSurahs(data) == Lookup(data, "read_surahs").items
HasReadList(data) ==
    data.t = "dict" /\ HasKey(data, "read_surahs") /\ Lookup(data, "read_surahs").t = "list"

\* mark_surah_read without the membership test
mark_always_appends(data, surah_name) ==
    IF surah_name = "" \/ ~HasReadList(data) THEN MarkOut(data, FALSE, NoMsg, "")
    ELSE MarkOut(WithReadSurahs(data, Append(ReadSurahs(data), PyStr(surah_name))), TRUE,
                 ShowInfo("Progress", "Marked " \o surah_name \o " as read."), "")

\* mark_surah_read without the call of save_progress
mark_without_save(data, surah_name) ==
    IF surah_name = "" \/ ~HasReadList(data) THEN MarkOut(data, FALSE, NoMsg, "")
    ELSE IF PyStr(surah_name) \in Range(ReadSurahs(data))
    THEN MarkOut(data, FALSE,
                 ShowInfo("Progress", surah_name \o " already marked read."), "")
    ELSE MarkOut(WithReadSurahs(data, Append(ReadSurahs(data), PyStr(surah_name))), FALSE,
                 ShowInfo("Progress", "Marked " \o surah_name \o " as read."), "")

\* mark_surah_read calling save_progress on both branches
mark_saves_always(data, surah_name) ==
    IF surah_name = "" \/ ~HasReadList(data) THEN MarkOut(data, FALSE, NoMsg, "")
    ELSE IF PyStr(surah_name) \in Range(ReadSurahs(data))
    THEN MarkOut(data, TRUE,
                 ShowInfo("Progress", surah_name \o " already marked read."), "")
    ELSE MarkOut(WithReadSurahs(data, Append(ReadSurahs(data), PyStr(surah_name))), TRUE,
                 ShowInfo("Progress", "Marked " \o surah_name \o " as read."), "")

\* mark_surah_read with insert(0, surah_name) instead of append
mark_inserts_first(data, surah_name) ==
    IF surah_name = "" \/ ~HasReadList(data) THEN MarkOut(data, FALSE, NoMsg, "")
    ELSE IF PyStr(surah_name) \in Range(ReadSurahs(data))
    THEN MarkOut(data, FALSE,
                 ShowInfo("Progress", surah_name \o " already marked read."), "")
    ELSE MarkOut(WithReadSurahs(data, <<PyStr(surah_name)>> \o ReadSurahs(data)), TRUE,
                 ShowInfo("Progress", "Marked " \o surah_name \o " as read."), "")

\* mark_surah_read: the new progress_data, whether save_progress was called, the
\* messagebox shown and the exception that escaped.  The file contents of the model
\* hold no string under "read_surahs".
mark_surah_read(data, surah_name) ==
    IF surah_name = "" THEN MarkOut(data, FALSE, NoMsg, "")
    ELSE IF data.t # "dict" THEN MarkOut(data, FALSE, NoMsg, "TypeError")
    ELSE IF ~HasKey(data, "read_surahs") THEN MarkOut(data, FALSE, NoMsg, "KeyError")
    ELSE LET v == Lookup(data, "read_surahs") IN
         CASE v.t = "list" ->
                IF \A i \in 1..Len(v.items) : v.items[i] # PyStr(surah_name)
                THEN MarkOut(PyDict(SetItem(data.members, "read_surahs",
                                            PyList(Append(v.items, PyStr(surah_name))))),
                             TRUE,
                             ShowInfo("Progress", "Marked " \o surah_name \o " as read."),
                             "")
                ELSE MarkOut(data, FALSE,
                             ShowInfo("Progress", surah_name \o " already marked read."),
                             "")
           [] v.t = "dict" ->
                IF surah_name \notin Keys(v)
                THEN MarkOut(data, FALSE, NoMsg, "AttributeError")
                ELSE MarkOut(data, FALSE,
                             ShowInfo("Progress", surah_name \o " already marked read."),
                             "")
           [] v.t \in {"null", "num"} -> MarkOut(data, FALSE, NoMsg, "TypeError")

\* refresh_progress_list: the rows of the listbox afterwards and the exception that
\* escaped (the listbox is cleared before progress_data is read)
refresh_progress_list(data) ==
    IF data.t # "dict" THEN [rows |-> <<>>, exc |-> "AttributeError"]
    ELSE LET v == IF HasKey(data, "read_surahs") THEN Lookup(data, "read_surahs")
                  ELSE PyList(<<>>) IN
         CASE v.t = "list" -> [rows |-> v.items, exc |-> ""]
           [] v.t = "dict" ->
                [rows |-> [i \in 1..Len(v.members) |-> PyStr(v.members[i].key)],
                 exc |-> ""]
           [] v.t \in {"null", "num"} -> [rows |-> <<>>, exc |-> "TypeError"]

RECURSIVE JoinComma(_)
\* ','.join(strs)
JoinComma(strs) ==
    IF strs = <<>> THEN ""
    ELSE IF Len(strs) = 1 THEN strs[1]
    ELSE strs[1] \o "," \o JoinComma(Tail(strs))

\* sync_with_google_sheets adding the labels after what the cell already holds
sync_appends_to_cell(data, client, cell, remoteOk) ==
    IF ~client
    THEN [cell |-> cell,
          msg |-> ShowInfo("Sync", "Google Sheets not configured. Progress saved locally.")]
    ELSE IF ~remoteOk \/ ~HasReadList(data)
    THEN [cell |-> cell, msg |-> ShowError("Sync Error", "APIError")]
    ELSE [cell |-> IF cell = "" THEN JoinComma([i \in 1..Len(ReadSurahs(data)) |->
                                                  ReadSurahs(data)[i].v])
                   ELSE cell \o "," \o JoinComma([i \in 1..Len(ReadSurahs(data)) |->
                                                  ReadSurahs(data)[i].v]),
          msg |-> ShowInfo("Sync", "Progress synced with Google Sheets.")]

\* sync_with_google_sheets: cell A1 afterwards and the messagebox shown;
\* `remoteOk` is whether opening and updating the sheet succeed
sync_with_google_sheets(data, client, cell, remoteOk) ==
    IF ~client
    THEN [cell |-> cell,
          msg |-> ShowInfo("Sync", "Google Sheets not configured. Progress saved locally.")]
    ELSE IF ~remoteOk THEN [cell |-> cell, msg |-> ShowError("Sync Error", "APIError")]
    ELSE IF data.t # "dict"
         THEN [cell |-> cell, msg |-> ShowError("Sync Error", "AttributeError")]
    ELSE LET v == IF HasKey(data, "read_surahs") THEN Lookup(data, "read_surahs")
                  ELSE PyList(<<>>) IN
         CASE v.t = "list" ->
                IF \A i \in 1..Len(v.items) : v.items[i].t = "str"
                THEN [cell |-> JoinComma([i \in 1..Len(v.items) |-> v.items[i].v]),
                      msg |-> ShowInfo("Sync", "Progress synced with Google Sheets.")]
                ELSE [cell |-> cell, msg |-> ShowError("Sync Error", "TypeError")]
           [] v.t = "dict" ->
                [cell |-> JoinComma([i \in 1..Len(v.members) |-> v.members[i].key]),
                 msg |-> ShowInfo("Sync", "Progress synced with Google Sheets.")]
           [] v.t \in {"null", "num"} ->
                [cell |-> cell, msg |-> ShowError("Sync Error", "TypeError")]

-----------------------------------------------------------------------------
(* Zakat calculator.  Amounts are integers: wealth in cents, the product in    *)
(* thousandths of a cent.                                                      *)

ZakatRateMilli == 25

NoResult == [shown |-> FALSE, dollars |-> 0, cents |-> 0]

\* f"Zakat due: ${zakat:.2f}" of an amount of `c` cents
Format2(c) == [shown |-> TRUE, dollars |-> c \div 100, cents |-> c % 100]

\* the cents "{:.2f}" prints for `milli` thousandths of a cent.  The product is a
\* binary float: away from a tie its error is far below half a cent, on a tie
\* (…5 in the third decimal) the float may lie on either side, which `tieUp` decides
RoundCents(milli, tieUp) ==
    IF milli % 1000 > 500 \/ (milli % 1000 = 500 /\ tieUp)
    THEN milli \div 1000 + 1
    ELSE milli \div 1000

\* calculate_zakat without the test wealth < 0
calculate_zakat_unchecked(wealth, result, tieUp) ==
    IF ~wealth.valid
    THEN [result |-> result,
          msg |-> ShowError("Error", "Please enter a valid positive number.")]
    ELSE [result |-> Format2(RoundCents(wealth.cents * ZakatRateMilli, tieUp)),
          msg |-> NoMsg]

\* calculate_zakat: zakat_result afterwards and the messagebox shown
calculate_zakat(wealth, result, tieUp) ==
    IF ~wealth.valid \/ wealth.cents < 0
    THEN [result |-> result,
          msg |-> ShowError("Error", "Please enter a valid positive number.")]
    ELSE [result |-> Format2(RoundCents(wealth.cents * ZakatRateMilli, tieUp)),
          msg |-> NoMsg]

WealthEntries ==
    {[valid |-> FALSE, cents |-> 0]}
    \cup {[valid |-> TRUE, cents |-> c] :
             c \in ((0 - MaxWealthCents)..MaxWealthCents) \cup {1000000}}

-----------------------------------------------------------------------------
(* A second process, and the dates the clock can show *)

MaxDays == 1
MaxOvershoot == 2
Dates == 0..MaxDays

\* the state of the second process before it is launched
PeerOff == [pc |-> "off", progress_data |-> PyNone, surah_var |-> "", msg |-> NoMsg,
            lastLoad |-> "none", lastSave |-> "none", markCalls |-> 0]

-----------------------------------------------------------------------------
(* The application *)

Init ==
    /\ pc = "off"
    /\ progress_file \in FileContents
    /\ progress_data = PyNone
    /\ surah_var = ""
    /\ progress_listbox = <<>>
    /\ msg = NoMsg
    /\ console = ""
    /\ stderr = ""
    /\ lastOp = "none"
    /\ lastSave = "none"
    /\ markCalls = 0
    /\ starts = 0
    /\ marked = <<>>
    /\ loaded = PyNone
    /\ lastLoad = "none"
    /\ gs_client = FALSE
    /\ sheet_A1 = ""
    /\ wealth_var = [valid |-> TRUE, cents |-> 0]
    /\ zakat_result = NoResult
    /\ peer = PeerOff
    /\ now = 0
    /\ notified = [d \in Dates |-> 0]
    /\ started_at = 0

LoadStatus(file, readable) ==
    IF ~file.exists THEN "absent"
    ELSE IF ~readable THEN "unreadable"
    ELSE IF ~json_load(file.content).ok THEN "corrupt"
    ELSE "ok"

\* QuranApp.__init__ in a new process: load_progress, setup_google_sheets, the tabs
\* (create_progress_tab calls refresh_progress_list); an exception ends the process
Start ==
    /\ pc \in {"off", "crashed", "closed"}
    /\ starts < MaxStarts
    /\ \E readable \in BOOLEAN, sheets \in BOOLEAN :
         LET data == load_progress(progress_file, readable)
             r == refresh_progress_list(data) IN
         /\ progress_data' = data
         /\ loaded' = data
         /\ lastLoad' = LoadStatus(progress_file, readable)
         /\ gs_client' = sheets
         /\ progress_listbox' = r.rows
         /\ stderr' = r.exc
         /\ pc' = IF r.exc = "" THEN "running" ELSE "crashed"
    /\ starts' = starts + 1
    /\ surah_var' = ""
    /\ msg' = NoMsg
    /\ console' = ""
    /\ lastOp' = "start"
    /\ lastSave' = "none"
    /\ marked' = <<>>
    /\ wealth_var' = [valid |-> TRUE, cents |-> 0]
    /\ zakat_result' = NoResult
    /\ UNCHANGED <<progress_file, markCalls, sheet_A1, peer, reminderVars>>

\* <<ComboboxSelected>>
Select ==
    /\ pc = "running"
    /\ \E name \in SurahNames : surah_var' = name
    /\ msg' = NoMsg
    /\ console' = ""
    /\ stderr' = ""
    /\ lastOp' = "select"
    /\ lastSave' = "none"
    /\ UNCHANGED <<pc, progress_file, progress_data, progress_listbox, markCalls,
                   starts, marked, loaded, lastLoad, sheetVars, zakatVars, peer, reminderVars>>

\* the "Mark Surah as Read" button
Mark ==
    /\ pc = "running"
    /\ markCalls < MaxMarks
    /\ LET r == mark_surah_read(progress_data, surah_var) IN
       /\ progress_data' = r.data
       /\ msg' = r.msg
       /\ stderr' = r.exc
       /\ IF r.saved
          THEN \E fault \in Faults(r.data) :
                  /\ progress_file' = save_progress(r.data, progress_file, fault).file
                  /\ console' = save_progress(r.data, progress_file, fault).console
                  /\ lastSave' = fault.kind
          ELSE /\ progress_file' = progress_file
               /\ console' = ""
               /\ lastSave' = "none"
    /\ markCalls' = markCalls + 1
    /\ marked' = IF surah_var # "" /\ surah_var \notin Range(marked)
                 THEN Append(marked, surah_var) ELSE marked
    /\ lastOp' = "mark"
    /\ UNCHANGED <<pc, surah_var, progress_listbox, starts, loaded, lastLoad,
                   sheetVars, zakatVars, peer, reminderVars>>

\* the "Refresh" button
Refresh ==
    /\ pc = "running"
    /\ progress_listbox' = refresh_progress_list(progress_data).rows
    /\ stderr' = refresh_progress_list(progress_data).exc
    /\ msg' = NoMsg
    /\ console' = ""
    /\ lastOp' = "refresh"
    /\ lastSave' = "none"
    /\ UNCHANGED <<pc, progress_file, progress_data, surah_var, markCalls,
                   starts, marked, loaded, lastLoad, sheetVars, zakatVars, peer, reminderVars>>

\* the "Sync with Google Sheets" button
Sync ==
    /\ pc = "running"
    /\ \E remoteOk \in BOOLEAN :
         LET r == sync_with_google_sheets(progress_data, gs_client, sheet_A1, remoteOk) IN
         /\ sheet_A1' = r.cell
         /\ msg' = r.msg
    /\ console' = ""
    /\ stderr' = ""
    /\ lastOp' = "sync"
    /\ lastSave' = "none"
    /\ UNCHANGED <<pc, progress_file, progress_data, surah_var, progress_listbox,
                   markCalls, starts, marked, loaded, lastLoad, gs_client,
                   zakatVars, peer, reminderVars>>

\* on_closing (WM_DELETE_WINDOW): save_progress, then the window is destroyed
Close ==
    /\ pc = "running"
    /\ \E fault \in Faults(progress_data) :
         /\ progress_file' = save_progress(progress_data, progress_file, fault).file
         /\ console' = save_progress(progress_data, progress_file, fault).console
         /\ lastSave' = fault.kind
    /\ pc' = "closed"
    /\ msg' = NoMsg
    /\ stderr' = ""
    /\ lastOp' = "close"
    /\ UNCHANGED <<progress_data, surah_var, progress_listbox, markCalls,
                   starts, marked, loaded, lastLoad, sheetVars, zakatVars, peer, reminderVars>>

Next == Start \/ Select \/ Mark \/ Refresh \/ Close

Spec == Init /\ [][Next]_vars

\* The same instance with the sync button, started on fewer file contents
SyncInit ==
    /\ Init
    /\ progress_file \in
         { Absent,
           FileOf(json_dump(StoreOf(<<"An-Nas", "Al-Ikhlas">>))),
           FileOf(json_dump(PyDict(<<Member("read_surahs", PyNone)>>))),
           FileOf(json_dump(PyDict(<<Member("read_surahs",
                      PyDict(<<Member("Al-Fatiha", PyStr("2025-03-01 04:10"))>>))>>))) }

\* the Sheets scenario leaves out writes that stop half way
SyncNext ==
    \/ Start
    \/ Select
    \/ Mark /\ lastSave' # "diskfull"
    \/ Sync
    \/ Close /\ lastSave' # "diskfull"

SpecSync == SyncInit /\ [][SyncNext]_vars

-----------------------------------------------------------------------------
(* Two processes on one progress.json.  The second process runs the same code;  *)
(* its state is the record `peer`.  Nothing serialises the two.                 *)

\* QuranApp.__init__ in the second process
PeerStart ==
    /\ peer.pc = "off"
    /\ \E readable \in BOOLEAN :
         LET data == load_progress(progress_file, readable)
             r == refresh_progress_list(data) IN
         peer' = [peer EXCEPT !.pc = IF r.exc = "" THEN "running" ELSE "crashed",
                              !.progress_data = data,
                              !.lastLoad = LoadStatus(progress_file, readable),
                              !.surah_var = "",
                              !.msg = NoMsg,
                              !.lastSave = "none"]
    /\ UNCHANGED <<pc, progress_file, progress_data, surah_var, progress_listbox, msg,
                   console, stderr, lastOp, lastSave, markCalls, starts, marked, loaded,
                   lastLoad, sheetVars, zakatVars, reminderVars>>

\* <<ComboboxSelected>> in the second process
PeerSelect ==
    /\ peer.pc = "running"
    /\ \E name \in SurahNames :
         peer' = [peer EXCEPT !.surah_var = name, !.msg = NoMsg, !.lastSave = "none"]
    /\ UNCHANGED <<pc, progress_file, progress_data, surah_var, progress_listbox, msg,
                   console, stderr, lastOp, lastSave, markCalls, starts, marked, loaded,
                   lastLoad, sheetVars, zakatVars, reminderVars>>

\* the "Mark Surah as Read" button in the second process
PeerMark ==
    /\ peer.pc = "running"
    /\ peer.markCalls < MaxMarks
    /\ LET r == mark_surah_read(peer.progress_data, peer.surah_var) IN
       IF r.saved
       THEN \E fault \in Faults(r.data) :
               /\ progress_file' = save_progress(r.data, progress_file, fault).file
               /\ peer' = [peer EXCEPT !.progress_data = r.data,
                                       !.msg = r.msg,
                                       !.lastSave = fault.kind,
                                       !.markCalls = @ + 1]
       ELSE /\ progress_file' = progress_file
            /\ peer' = [peer EXCEPT !.progress_data = r.data,
                                    !.msg = r.msg,
                                    !.lastSave = "none",
                                    !.markCalls = @ + 1]
    /\ UNCHANGED <<pc, progress_data, surah_var, progress_listbox, msg,
                   console, stderr, lastOp, lastSave, markCalls, starts, marked, loaded,
                   lastLoad, sheetVars, zakatVars, reminderVars>>

\* on_closing in the second process
PeerClose ==
    /\ peer.pc = "running"
    /\ \E fault \in Faults(peer.progress_data) :
         /\ progress_file' = save_progress(peer.progress_data, progress_file, fault).file
         /\ peer' = [peer EXCEPT !.pc = "closed", !.msg = NoMsg, !.lastSave = fault.kind]
    /\ UNCHANGED <<pc, progress_data, surah_var, progress_listbox, msg,
                   console, stderr, lastOp, lastSave, markCalls, starts, marked, loaded,
                   lastLoad, sheetVars, zakatVars, reminderVars>>

\* the file is absent or holds two labels when the first process is launched
TwoInit ==
    /\ Init
    /\ progress_file \in {Absent, FileOf(json_dump(StoreOf(<<"An-Nas", "Al-Ikhlas">>)))}

\* Each process is launched once, Google Sheets is not configured, a write either
\* completes or is refused (no truncated file), and MaxMarks bounds the marks of
\* the two processes together.
TwoNext ==
    \/ Start /\ pc = "off" /\ ~gs_client'
    \/ Select
    \/ Mark /\ markCalls + peer.markCalls < MaxMarks /\ lastSave' # "diskfull"
    \/ Close /\ lastSave' # "diskfull"
    \/ PeerStart
    \/ PeerSelect
    \/ PeerMark /\ markCalls + peer.markCalls < MaxMarks /\ peer'.lastSave # "diskfull"
    \/ PeerClose /\ peer'.lastSave # "diskfull"

SpecTwo == TwoInit /\ [][TwoNext]_vars

-----------------------------------------------------------------------------
(* The Zakat tab on its own: a running instance whose other tabs are left alone *)

ZakatInit ==
    /\ pc = "running"
    /\ progress_file = Absent
    /\ progress_data = EmptyStore
    /\ surah_var = ""
    /\ progress_listbox = <<>>
    /\ msg = NoMsg
    /\ console = ""
    /\ stderr = ""
    /\ lastOp = "start"
    /\ lastSave = "none"
    /\ markCalls = 0
    /\ starts = 1
    /\ marked = <<>>
    /\ loaded = EmptyStore
    /\ lastLoad = "absent"
    /\ gs_client = FALSE
    /\ sheet_A1 = ""
    /\ wealth_var = [valid |-> TRUE, cents |-> 0]
    /\ zakat_result = NoResult
    /\ peer = PeerOff
    /\ now = 0
    /\ notified = [d \in Dates |-> 0]
    /\ started_at = 0

\* the user edits the "Total Wealth" entry
TypeWealth ==
    /\ pc = "running"
    /\ \E e \in WealthEntries : wealth_var' = e
    /\ lastOp' = "type"
    /\ msg' = NoMsg
    /\ UNCHANGED <<pc, progress_file, progress_data, surah_var, progress_listbox, console,
                   stderr, lastSave, markCalls, starts, marked, loaded,
                   lastLoad, sheetVars, zakat_result, peer, reminderVars>>

\* the "Calculate Zakat" button
CalculateZakat ==
    /\ pc = "running"
    /\ \E tieUp \in BOOLEAN :
         /\ zakat_result' = calculate_zakat(wealth_var, zakat_result, tieUp).result
         /\ msg' = calculate_zakat(wealth_var, zakat_result, tieUp).msg
    /\ lastOp' = "zakat"
    /\ UNCHANGED <<pc, progress_file, progress_data, surah_var, progress_listbox, console,
                   stderr, lastSave, markCalls, starts, marked, loaded,
                   lastLoad, sheetVars, wealth_var, peer, reminderVars>>

ZakatNext == TypeWealth \/ CalculateZakat

SpecZakat == ZakatInit /\ [][ZakatNext]_vars

-----------------------------------------------------------------------------
(* The daily reminder thread.  The clock counts seconds from midnight of date 0. *)

SUHOOR_HOUR == 3
SUHOOR_MINUTE == 0

DaySeconds == 24 * 3600

\* the fields of datetime.datetime.now() that the loop reads
DateOf(t) == t \div DaySeconds
HourOf(t) == (t % DaySeconds) \div 3600
MinuteOf(t) == (t % 3600) \div 60

\* the first second of the Suhoor minute of date d
SuhoorStart(d) == d * DaySeconds + SUHOOR_HOUR * 3600 + SUHOOR_MINUTE * 60

\* reminder_loop without the time.sleep(60) after the notification
reminder_no_pause(hour, minute) ==
    IF hour = SUHOOR_HOUR /\ minute = SUHOOR_MINUTE
    THEN [notify |-> TRUE, sleep |-> 30]
    ELSE [notify |-> FALSE, sleep |-> 30]

\* reminder_loop checking every 90 seconds instead of every 30
reminder_slow_poll(hour, minute) ==
    IF hour = SUHOOR_HOUR /\ minute = SUHOOR_MINUTE
    THEN [notify |-> TRUE, sleep |-> 60 + 90]
    ELSE [notify |-> FALSE, sleep |-> 90]

\* one iteration of reminder_loop on the clock reading (hour, minute): whether
\* send_notification is called and the seconds slept before the next reading
reminder_loop(hour, minute) ==
    IF hour = SUHOOR_HOUR /\ minute = SUHOOR_MINUTE
    THEN [notify |-> TRUE, sleep |-> 60 + 30]
    ELSE [notify |-> FALSE, sleep |-> 30]

\* the thread is started within the minute around the first Suhoor time, at every
\* phase of the 30 second polling
StartTimes == (SuhoorStart(0) - 30)..(SuhoorStart(0) + 14)

\* a few of those start times, for the runs in which the sleeps run late
LateStartTimes == {SuhoorStart(0) - 30, SuhoorStart(0) - 1, SuhoorStart(0) + 14}

\* the clock stops being followed two minutes after the last date's Suhoor time
Horizon == SuhoorStart(MaxDays) + 120

\* a running instance whose reminder thread was just started (start_reminder_thread)
ReminderInitAt(times) ==
    /\ pc = "running"
    /\ progress_file = Absent
    /\ progress_data = EmptyStore
    /\ surah_var = ""
    /\ progress_listbox = <<>>
    /\ msg = NoMsg
    /\ console = ""
    /\ stderr = ""
    /\ lastOp = "start"
    /\ lastSave = "none"
    /\ markCalls = 0
    /\ starts = 1
    /\ marked = <<>>
    /\ loaded = EmptyStore
    /\ lastLoad = "absent"
    /\ gs_client = FALSE
    /\ sheet_A1 = ""
    /\ wealth_var = [valid |-> TRUE, cents |-> 0]
    /\ zakat_result = NoResult
    /\ peer = PeerOff
    /\ started_at \in times
    /\ now = started_at
    /\ notified = [d \in Dates |-> 0]

\* one pass of the while loop: read the clock, notify at Suhoor time, sleep.  The
\* clock only moves forward; `late` is how much longer than asked the sleeps and
\* the pass itself lasted
Poll(late) ==
    /\ pc = "running"
    /\ now < Horizon
    /\ LET r == reminder_loop(HourOf(now), MinuteOf(now)) IN
         /\ notified' = IF r.notify
                        THEN [notified EXCEPT ![DateOf(now)] = @ + 1]
                        ELSE notified
         /\ now' = now + r.sleep + late
    /\ UNCHANGED <<pc, progress_file, progress_data, surah_var, progress_listbox, msg,
                   console, stderr, lastOp, lastSave, markCalls, starts, marked, loaded,
                   lastLoad, sheetVars, zakatVars, peer, started_at>>

\* every sleep lasts exactly as long as asked
PollOnTime == Poll(0)

\* every sleep lasts at least as long as asked
PollLate == \E late \in 0..MaxOvershoot : Poll(late)

ReminderInit == ReminderInitAt(StartTimes)

ReminderNext == PollOnTime

SpecReminder == ReminderInit /\ [][ReminderNext]_vars

LateInit == ReminderInitAt(LateStartTimes)

LateNext == PollLate

SpecReminderLate == LateInit /\ [][LateNext]_vars

-----------------------------------------------------------------------------
(* What the user is told by a mark, and what the store holds *)

MsgRecorded(label) == ShowInfo("Progress", "Marked " \o label \o " as read.")
MsgAlready(label) == ShowInfo("Progress", label \o " already marked read.")

\* the last UI event was a mark of the selected label, and it reported ...
Recorded == lastOp = "mark" /\ surah_var # "" /\ msg = MsgRecorded(surah_var)
AlreadyRecorded == lastOp = "mark" /\ surah_var # "" /\ msg = MsgAlready(surah_var)

\* this step is a call of mark_surah_read
MarkStep == markCalls' = markCalls + 1

LabelsOf(names) == [i \in 1..Len(names) |-> PyStr(names[i])]

\* the store holds a completion timestamp for `label`: a mapping label -> time string,
\* at the top level or under "read_surahs"
HoldsTimestamp(data, label) ==
    /\ data.t = "dict"
    /\ \/ HasKey(data, label) /\ Lookup(data, label).t = "str"
       \/ /\ HasKey(data, "read_surahs")
          /\ Lookup(data, "read_surahs").t = "dict"
          /\ HasKey(Lookup(data, "read_surahs"), label)
          /\ Lookup(Lookup(data, "read_surahs"), label).t = "str"

-----------------------------------------------------------------------------
(* C1: a mark of the label that the previous mark call just reported on (as     *)
(* recorded or as already recorded) changes neither the store nor the file and  *)
(* reports "already marked read"; the label then has exactly one entry whenever *)
(* the first call recorded it or the store came without duplicates.             *)
C1_MarkIdempotent ==
    [][(MarkStep /\ (Recorded \/ AlreadyRecorded)) =>
          /\ progress_data' = progress_data
          /\ progress_file' = progress_file
          /\ msg' = MsgAlready(surah_var)
          /\ stderr' = ""
          /\ (HasReadList(progress_data)
                /\ (Recorded \/ NoDuplicates(ReadSurahs(progress_data))))
                => Count(ReadSurahs(progress_data'), PyStr(surah_var)) = 1]_vars

\* the label was recorded by one mark and the next mark of it reported "already"
C1_Witness ==
    /\ pc = "running"
    /\ AlreadyRecorded
    /\ markCalls = 2
    /\ loaded = EmptyStore
    /\ marked = <<surah_var>>
    /\ progress_data = StoreOf(<<surah_var>>)

(* C2: in every state of a running instance each label appears at most once in  *)
(* the store, whatever the backing file held at load.                            *)
C2_LabelsUnique ==
    (pc = "running" /\ HasReadList(progress_data))
        => NoDuplicates(ReadSurahs(progress_data))

(* C3: when progress.json is absent, unreadable or unparsable, load_progress     *)
(* returns the empty store and the constructor goes on without an error.         *)
C3_LoadFailSoft ==
    lastLoad \in {"absent", "unreadable", "corrupt"} =>
        /\ loaded = EmptyStore
        /\ lastOp = "start" =>
              pc = "running" /\ stderr = "" /\ progress_data = EmptyStore

\* the application started on garbage bytes and runs with an empty store
C3_Witness ==
    /\ lastOp = "start"
    /\ progress_file = FileOf(<<Tok("junk", "#!@")>>)
    /\ lastLoad = "corrupt"
    /\ pc = "running"
    /\ progress_data = EmptyStore

(* C4: whatever the backing file held, the application starts, and a mark of a   *)
(* non-empty label raises nothing and reports recorded or already recorded,      *)
(* working on the empty store when the file was not shaped like a store.         *)
C4_MarkAlwaysReports ==
    /\ pc # "crashed"
    /\ (pc = "running" /\ lastOp = "mark" /\ surah_var # "") =>
          /\ stderr = ""
          /\ Recorded \/ AlreadyRecorded
    /\ pc = "running" => HasReadList(progress_data)

C6_FileEqualsStore ==
    (pc = "running" /\ Recorded) => progress_file = FileOf(json_dump(progress_data))

(* C6: a mark that recorded a new label has called save_progress before control  *)
(* returns to the UI, and when that write succeeded the backing file equals the  *)
(* in-memory store.                                                              *)
C6_WriteThrough ==
    /\ (pc = "running" /\ Recorded) => lastSave # "none"
    /\ (pc = "running" /\ lastOp = "mark" /\ lastSave = "ok") =>
          progress_file = FileOf(json_dump(progress_data))

\* a mark recorded a second label and its write succeeded
C6_Witness ==
    /\ pc = "running"
    /\ Recorded
    /\ lastSave = "ok"
    /\ HasReadList(progress_data)
    /\ Len(ReadSurahs(progress_data)) = 2
    /\ json_load(progress_file.content).val = progress_data

(* C7 as claimed: every mark call of a label writes the backing file, whether it *)
(* reports recorded or already recorded.                                         *)
C7_EveryMarkWrites ==
    [][(MarkStep /\ surah_var # ""
          /\ msg' \in {MsgRecorded(surah_var), MsgAlready(surah_var)})
          => lastSave' # "none"]_vars

(* C7: a mark call calls save_progress exactly when it records a new label; a    *)
(* call that reports "already marked read", raises or has no label selected      *)
(* leaves the file alone.                                                        *)
C7_WriteIffRecorded ==
    [][MarkStep =>
          /\ (lastSave' # "none") <=> (surah_var # "" /\ msg' = MsgRecorded(surah_var))
          /\ lastSave' = "none" => progress_file' = progress_file]_vars

\* a mark reported "already marked read" and wrote nothing, after one that wrote
C7_Witness ==
    /\ pc = "running"
    /\ AlreadyRecorded
    /\ lastSave = "none"
    /\ loaded = EmptyStore
    /\ progress_file = FileOf(json_dump(progress_data))

(* C8: on a store loaded empty, the labels of the store are the distinct labels  *)
(* marked, in the order of their first mark; a mark keeps the entries it found   *)
(* at their places; the refreshed list shows the store in store order.           *)
C8_InsertionOrder ==
    [][/\ (pc' = "running" /\ loaded' = EmptyStore) =>
             /\ HasReadList(progress_data')
             /\ ReadSurahs(progress_data') = LabelsOf(marked')
       /\ (MarkStep /\ HasReadList(progress_data)) =>
             /\ HasReadList(progress_data')
             /\ IsPrefix(ReadSurahs(progress_data), ReadSurahs(progress_data'))
       /\ (lastOp' = "refresh" /\ HasReadList(progress_data')) =>
             progress_listbox' = ReadSurahs(progress_data')]_vars

\* both labels were marked, the second one first, and one of them again
C8_Witness ==
    /\ pc = "running"
    /\ loaded = EmptyStore
    /\ markCalls = 3
    /\ marked = <<"Al-Ikhlas", "Al-Fatiha">>
    /\ progress_data = StoreOf(<<"Al-Ikhlas", "Al-Fatiha">>)
    /\ progress_listbox = ReadSurahs(progress_data)

(* C9: when the write of a mark fails, nothing escapes the callback, the user is *)
(* shown a warning, and is not told that the label was marked as read.           *)
C9_SaveFailureReported ==
    (pc = "running" /\ lastOp = "mark" /\ lastSave \in {"denied", "diskfull"}) =>
        /\ stderr = ""
        /\ msg.kind \in {"warning", "error"}
        /\ msg # MsgRecorded(surah_var)

(* C10: Calculate Zakat on a wealth w >= 0 shows 2.5% of w rounded to cents      *)
(* (10000.00 gives 250.00, 0 gives 0.00) and no error; on a negative wealth it   *)
(* shows an error and leaves the result shown before as it was.                  *)
C10_Zakat ==
    [][(lastOp' = "zakat" /\ wealth_var.valid) =>
          LET shown == 100 * zakat_result'.dollars + zakat_result'.cents
              exact == wealth_var.cents * 25 IN
          /\ wealth_var.cents >= 0 =>
                /\ zakat_result'.shown
                /\ zakat_result'.cents \in 0..99
                /\ 1000 * shown - exact \in (0 - 500)..500
                /\ msg' = NoMsg
          /\ wealth_var.cents = 1000000 =>
                zakat_result'.dollars = 250 /\ zakat_result'.cents = 0
          /\ wealth_var.cents = 0 =>
                zakat_result'.dollars = 0 /\ zakat_result'.cents = 0
          /\ wealth_var.cents < 0 =>
                /\ zakat_result' = zakat_result
                /\ msg'.kind = "error"]_vars

\* 10000.00 was entered and 250.00 is shown
C10_Witness ==
    /\ lastOp = "zakat"
    /\ wealth_var = [valid |-> TRUE, cents |-> 1000000]
    /\ zakat_result = [shown |-> TRUE, dollars |-> 250, cents |-> 0]
    /\ msg = NoMsg

-----------------------------------------------------------------------------
(* Labels held by a store and by the backing file *)

StoreLabels(data) ==
    IF HasReadList(data) THEN Range(ReadSurahs(data)) ELSE {}
FileLabels(file) ==
    IF file.exists /\ json_load(file.content).ok
    THEN StoreLabels(json_load(file.content).val)
    ELSE {}

\* this step is a callback of the second process / of the first one
PeerStep == peer' # peer
OwnStep == peer' = peer

(* C11: a save that succeeds replaces the file by the saving process's own store, *)
(* whatever the file held: every label the file held that the saver's store lacks *)
(* is gone from the file, so with two processes on one file a label one of them   *)
(* recorded and saved is lost when the other, which loaded earlier, saves.        *)
C11_LastWriterWins ==
    [][/\ (PeerStep /\ peer'.lastSave = "ok") =>
             /\ progress_file' = FileOf(json_dump(peer'.progress_data))
             /\ FileLabels(progress_file') = StoreLabels(peer'.progress_data)
             /\ progress_data' = progress_data
       /\ (OwnStep /\ lastSave' = "ok") =>
             /\ progress_file' = FileOf(json_dump(progress_data'))
             /\ FileLabels(progress_file') = StoreLabels(progress_data')
             /\ peer'.progress_data = peer.progress_data]_vars

\* the first process reported its label recorded and saved it; the second process,
\* which had loaded the file before, then recorded and saved another label, and the
\* file no longer holds the first one
C11_Witness ==
    /\ pc = "running"
    /\ Recorded
    /\ lastSave = "ok"
    /\ peer.pc = "running"
    /\ peer.lastLoad \in {"absent", "ok"}
    /\ peer.lastSave = "ok"
    /\ peer.msg = MsgRecorded(peer.surah_var)
    /\ peer.surah_var # surah_var
    /\ PyStr(surah_var) \in StoreLabels(progress_data)
    /\ PyStr(peer.surah_var) \in FileLabels(progress_file)
    /\ PyStr(surah_var) \notin FileLabels(progress_file)

-----------------------------------------------------------------------------
(* C12: with a clock that only moves forward and sleeps that last at least as    *)
(* long as asked, no date gets more than one Suhoor notification, at whatever    *)
(* second of the 03:00 minute the polling lands.                                 *)
C12_AtMostOncePerDay ==
    \A d \in Dates : notified[d] <= 1

\* the thread's first reading fell in the first half of the 03:00 minute, it notified
\* once, and the loop has since gone on polling past that minute
C12_Witness ==
    /\ started_at \in SuhoorStart(0)..(SuhoorStart(0) + 14)
    /\ notified[0] = 1
    /\ now >= SuhoorStart(0) + 180
    /\ (now - started_at) % 30 # 0

\* the labels of the store, in store order, as strings
LabelStrings(data) ==
    IF HasReadList(data)
    THEN [i \in 1..Len(ReadSurahs(data)) |-> ReadSurahs(data)[i].v]
    ELSE <<>>

MsgSynced == ShowInfo("Sync", "Progress synced with Google Sheets.")
MsgNotConfigured == ShowInfo("Sync", "Google Sheets not configured. Progress saved locally.")

\* this step is a call of sync_with_google_sheets
SyncStep == lastOp' = "sync"

(* C13: a sync never changes the local store or the backing file and never       *)
(* raises; it always ends in a message box.  Without a Sheets client it says so  *)
(* and leaves the cell alone.  With one, either an error box is shown, or cell   *)
(* A1 becomes the comma-joined labels of the store in store order, whatever the  *)
(* cell held before.                                                             *)
C13_SyncOneWayOverwrite ==
    [][SyncStep =>
         /\ progress_data' = progress_data
         /\ progress_file' = progress_file
         /\ pc' = "running"
         /\ stderr' = ""
         /\ ~gs_client => (msg' = MsgNotConfigured /\ sheet_A1' = sheet_A1)
         /\ gs_client =>
               \/ msg'.kind = "error" /\ msg'.title = "Sync Error"
               \/ /\ msg' = MsgSynced
                  /\ HasReadList(progress_data) =>
                        sheet_A1' = JoinComma(LabelStrings(progress_data))]_vars

\* a store loaded with two labels got a third one marked and was synced
C13_Witness ==
    /\ lastOp = "sync"
    /\ gs_client
    /\ msg = MsgSynced
    /\ progress_data = StoreOf(<<"An-Nas", "Al-Ikhlas", "Al-Fatiha">>)
    /\ sheet_A1 = "An-Nas,Al-Ikhlas,Al-Fatiha"

(* C14: on every date whose 03:00 minute the thread was running through, once    *)
(* that minute is over a Suhoor notification has been sent for that date, at     *)
(* every phase of the polling and also after the 90 second pause of the date     *)
(* before.                                                                       *)
C14_OncePerDay ==
    \A d \in Dates :
        (started_at <= SuhoorStart(d) /\ now >= SuhoorStart(d) + 60)
            => notified[d] >= 1

\* notified on date 0, paused 90 seconds, and notified again on the last date
C14_Witness ==
    /\ started_at < SuhoorStart(0)
    /\ notified[0] = 1
    /\ notified[MaxDays] = 1
    /\ MaxDays > 0
    /\ now >= SuhoorStart(MaxDays) + 60

====
